---- MODULE Spec2Model ----
(***************************************************************************)
(* Model of chatbot.py: a rule-based question-answering loop over a small  *)
(* financial table.  Text is modelled as TLA+ strings scanned character by *)
(* character, the table as the sequence of rows load_data produces, and    *)
(* the interactive loop of main() as a three-step cycle:                   *)
(*     load -> (read_input -> reply)* -> exit                              *)
(***************************************************************************)
EXTENDS Integers, Sequences, FiniteSets, TLC

VARIABLES
    pc,         \* position of main(): "load", "input", "reply", "failed", "done"
    file,       \* the CSV file handed to load_data
    df,         \* the loaded table (sequence of rows, sorted, with YoY columns)
    state,      \* the conversation state dict
    user,       \* the text read by input() (before .strip())
    out,        \* outcome of the last chatbot_reply call (returned text or raised error)
    frame,      \* locals of the last chatbot_reply call at the point it returned
    prev,       \* history: outcome and state of the preceding call when the same text is repeated
    mentioned   \* history: companies named by the most recent text that named any

vars == <<pc, file, df, state, user, out, frame, prev, mentioned>>

-----------------------------------------------------------------------------
(* Bounds of the model                                                     *)

\* at most this many rows in the CSV file
MaxRows == 2
\* at most this many of the five phrase slots of an utterance are filled
MaxPhrases == 4

-----------------------------------------------------------------------------
(* Strings                                                                 *)

Chr(s, i) == SubSeq(s, i, i)

UpperCase == "ABCDEFGHIJKLMNOPQRSTUVWXYZ"
LowerCase == "abcdefghijklmnopqrstuvwxyz"
Digits == "0123456789"

IndexIn(alphabet, c) ==
    IF \E i \in 1..Len(alphabet) : Chr(alphabet, i) = c
    THEN CHOOSE i \in 1..Len(alphabet) : Chr(alphabet, i) = c
    ELSE 0

\* the lower-case letter of each upper-case letter
ToLower == [i \in 1..Len(UpperCase) |-> Chr(LowerCase, i)]
UpperSet == {Chr(UpperCase, i) : i \in 1..Len(UpperCase)}

\* str.lower()
RECURSIVE lower(_)
lower(s) ==
    IF Len(s) = 0 THEN ""
    ELSE LET c == Chr(s, 1)
         IN  (IF c \in UpperSet THEN ToLower[IndexIn(UpperCase, c)] ELSE c)
             \o lower(SubSeq(s, 2, Len(s)))

\* str.strip(): drop leading and trailing whitespace
RECURSIVE strip(_)
strip(s) ==
    IF Len(s) = 0 THEN ""
    ELSE IF Chr(s, 1) = " " THEN strip(SubSeq(s, 2, Len(s)))
    ELSE IF Chr(s, Len(s)) = " " THEN strip(SubSeq(s, 1, Len(s) - 1))
    ELSE s

\* the Python test `k in t` on strings
Contains(t, k) ==
    \E i \in 1..(Len(t) - Len(k) + 1) : SubSeq(t, i, i + Len(k) - 1) = k

\* any(k in t for k in keywords)
AnyIn(t, keywords) == \E k \in keywords : Contains(t, k)

IsDigit(c) == IndexIn(Digits, c) # 0
DigitVal(c) == IndexIn(Digits, c) - 1
\* \w of the regex engine, on the characters the inputs use
IsWordChar(c) ==
    IsDigit(c) \/ IndexIn(UpperCase, c) # 0 \/ IndexIn(LowerCase, c) # 0 \/ c = "_"

-----------------------------------------------------------------------------
(* Rule parsing                                                            *)

SUPPORTED_COMPANIES == <<"Apple", "Microsoft", "Tesla">>

None == "None"

\* the companies of cs (a sequence) that satisfy keep, in the order of cs
RECURSIVE Filter(_, _)
Filter(cs, keep) ==
    IF cs = <<>> THEN <<>>
    ELSE (IF Head(cs) \in keep THEN <<Head(cs)>> ELSE <<>>) \o Filter(Tail(cs), keep)

extract_companies(text) ==
    LET t == lower(text)
    IN  Filter(SUPPORTED_COMPANIES,
               {c \in {SUPPORTED_COMPANIES[i] : i \in DOMAIN SUPPORTED_COMPANIES} :
                    Contains(t, lower(c))})

\* position i starts a match of \b(20\d{2})\b
YearAt(text, i) ==
    /\ i + 3 <= Len(text)
    /\ SubSeq(text, i, i + 1) = "20"
    /\ IsDigit(Chr(text, i + 2))
    /\ IsDigit(Chr(text, i + 3))
    /\ (i = 1 \/ ~IsWordChar(Chr(text, i - 1)))
    /\ (i + 3 = Len(text) \/ ~IsWordChar(Chr(text, i + 4)))

\* re.search: the leftmost match, or None (0 stands for None: no year is 0)
extract_year(text) ==
    LET hits == {i \in 1..Len(text) : YearAt(text, i)}
    IN  IF hits = {} THEN 0
        ELSE LET i == CHOOSE j \in hits : \A k \in hits : j <= k
             IN  2000 + 10 * DigitVal(Chr(text, i + 2)) + DigitVal(Chr(text, i + 3))

NoMetric == [col |-> None, name |-> None]

\* mutant of detect_metric: the CFO group is tested before the assets group
detect_metric_cfo_early(text) ==
    LET t == lower(text)
    IN  IF AnyIn(t, {"revenue", "sales", "top line"})
            THEN [col |-> "TotalRevenue", name |-> "total revenue"]
        ELSE IF AnyIn(t, {"net income", "profit", "earnings"})
            THEN [col |-> "NetIncome", name |-> "net income"]
        ELSE IF AnyIn(t, {"cfo", "operating cash", "operating cash flow",
                          "cash flow from operations"})
            THEN [col |-> "CFO", name |-> "cash flow from operations (CFO)"]
        ELSE IF AnyIn(t, {"assets", "total assets"})
            THEN [col |-> "TotalAssets", name |-> "total assets"]
        ELSE IF AnyIn(t, {"liabilities", "total liabilities", "debt"})
            THEN [col |-> "TotalLiabilities", name |-> "total liabilities"]
        ELSE NoMetric

\* mutant of detect_metric: the net income group is tested before the revenue group
detect_metric_income_first(text) ==
    LET t == lower(text)
    IN  IF AnyIn(t, {"net income", "profit", "earnings"})
            THEN [col |-> "NetIncome", name |-> "net income"]
        ELSE IF AnyIn(t, {"revenue", "sales", "top line"})
            THEN [col |-> "TotalRevenue", name |-> "total revenue"]
        ELSE IF AnyIn(t, {"assets", "total assets"})
            THEN [col |-> "TotalAssets", name |-> "total assets"]
        ELSE IF AnyIn(t, {"liabilities", "total liabilities", "debt"})
            THEN [col |-> "TotalLiabilities", name |-> "total liabilities"]
        ELSE IF AnyIn(t, {"cfo", "operating cash", "operating cash flow",
                          "cash flow from operations"})
            THEN [col |-> "CFO", name |-> "cash flow from operations (CFO)"]
        ELSE NoMetric

detect_metric(text) ==
    LET t == lower(text)
    IN  IF AnyIn(t, {"revenue", "sales", "top line"})
            THEN [col |-> "TotalRevenue", name |-> "total revenue"]
        ELSE IF AnyIn(t, {"net income", "profit", "earnings"})
            THEN [col |-> "NetIncome", name |-> "net income"]
        ELSE IF AnyIn(t, {"assets", "total assets"})
            THEN [col |-> "TotalAssets", name |-> "total assets"]
        ELSE IF AnyIn(t, {"liabilities", "total liabilities", "debt"})
            THEN [col |-> "TotalLiabilities", name |-> "total liabilities"]
        ELSE IF AnyIn(t, {"cfo", "operating cash", "operating cash flow",
                          "cash flow from operations"})
            THEN [col |-> "CFO", name |-> "cash flow from operations (CFO)"]
        ELSE NoMetric

wants_yoy(text) ==
    AnyIn(lower(text), {"yoy", "year over year", "growth", "change",
                        "increased", "decreased", "delta"})

wants_compare(text) ==
    AnyIn(lower(text), {"compare", "vs", "versus", "difference", "which company"})

-----------------------------------------------------------------------------
(* Inputs: CSV files and typed lines                                       *)

Row(c, y, tr, ni, ta, tl, cfo) ==
    [Company |-> c, FiscalYear |-> y, TotalRevenue |-> tr, NetIncome |-> ni,
     TotalAssets |-> ta, TotalLiabilities |-> tl, CFO |-> cfo]

\* rows a file may hold, in file order (not sorted)
SampleRows ==
    <<Row("Tesla", 2024, 98, 7, 122, 48, 0),
      Row("Apple", 2024, 391, 94, 365, 308, 118),
      Row("Microsoft", 2023, 212, 72, 412, 206, 88),
      Row("Tesla", 2023, 97, 0, 107, 43, 0),
      Row("Apple", 2023, 383, 97, 352, 308, 110),
      Row("Microsoft", 2024, 1245, -88, 512, 244, 119)>>

ExcelHeader ==
    {"Company", "Fiscal Year", "Total Revenue (USD mn)", "Net Income (USD mn)",
     "Total Assets (USD mn)", "Total Liabilities (USD mn)",
     "Cash Flow from Operations (USD mn)"}

RECURSIVE Pick(_, _)
Pick(rows, keep) ==
    IF rows = <<>> THEN <<>>
    ELSE Pick(SubSeq(rows, 1, Len(rows) - 1), keep)
         \o (IF Len(rows) \in keep THEN <<rows[Len(rows)]>> ELSE <<>>)

Files ==
    {[exists |-> TRUE, header |-> ExcelHeader, rows |-> Pick(SampleRows, S)] :
        S \in {T \in SUBSET DOMAIN SampleRows : 1 <= Cardinality(T) /\ Cardinality(T) <= MaxRows}}
    \cup {[exists |-> FALSE, header |-> {}, rows |-> <<>>],
          [exists |-> TRUE, header |-> ExcelHeader \ {"Net Income (USD mn)"}, rows |-> <<>>]}

\* phrase slots of a typed question; "" leaves the slot out
IntentPhrases == {"", "Compare", "growth of"}
MetricPhrases == {"", "revenue", "net income and revenue", "profit",
                  "cfo and total assets", "debt", "operating cash flow"}
CompanyPhrases == {"", "for Apple", "for tesla and apple", "for MICROSOFT"}
ScopePhrases == {"", "for all companies", "overall"}
YearPhrases == {"", "in 2024", "in 2022 vs 2023", "FY2023"}

Filled(slots) == Cardinality({i \in DOMAIN slots : slots[i] # ""})

RECURSIVE Sentence(_)
Sentence(slots) ==
    IF slots = <<>> THEN ""
    ELSE LET rest == Sentence(Tail(slots))
         IN  IF Head(slots) = "" THEN rest
             ELSE IF rest = "" THEN Head(slots)
             ELSE Head(slots) \o " " \o rest

\* what input() may return: a question typed with surrounding blanks, or exit
Lines ==
    {" " \o Sentence(slots) \o " " :
        slots \in {q \in IntentPhrases \X MetricPhrases \X CompanyPhrases
                         \X ScopePhrases \X YearPhrases : Filled(q) <= MaxPhrases}}
    \cup {"exit", " Exit "}

\* the texts chatbot_reply is called with, and the scans of each, made once
Texts == {strip(l) : l \in Lines}

-----------------------------------------------------------------------------
(* Outcomes of a call: a returned value or a raised exception             *)

Return(v) == [raised |-> None, value |-> v]
Raise(e, v) == [raised |-> e, value |-> v]

-----------------------------------------------------------------------------
(* Load + prepare data                                                     *)

METRIC_COLS == <<"TotalRevenue", "NetIncome", "TotalAssets", "TotalLiabilities", "CFO">>
MetricSet == {METRIC_COLS[i] : i \in DOMAIN METRIC_COLS}

\* col_map of load_data: Excel header -> canonical column
col_map ==
    {<<"Fiscal Year", "FiscalYear">>,
     <<"Total Revenue (USD mn)", "TotalRevenue">>,
     <<"Net Income (USD mn)", "NetIncome">>,
     <<"Total Assets (USD mn)", "TotalAssets">>,
     <<"Total Liabilities (USD mn)", "TotalLiabilities">>,
     <<"Cash Flow from Operations (USD mn)", "CFO">>}

rename(h) ==
    IF \E m \in col_map : m[1] = h THEN (CHOOSE m \in col_map : m[1] = h)[2] ELSE h

required == {"Company", "FiscalYear"} \cup MetricSet

\* code-point order of the characters company names use
CodePoints == UpperCase \o LowerCase

\* Python's str <
RECURSIVE StrLess(_, _)
StrLess(a, b) ==
    IF Len(b) = 0 THEN FALSE
    ELSE IF Len(a) = 0 THEN TRUE
    ELSE LET x == IndexIn(CodePoints, Chr(a, 1))
             y == IndexIn(CodePoints, Chr(b, 1))
         IN  IF x # y THEN x < y
             ELSE StrLess(SubSeq(a, 2, Len(a)), SubSeq(b, 2, Len(b)))

\* the sort key ["Company", "FiscalYear"]
RowLess(a, b) ==
    \/ StrLess(a.Company, b.Company)
    \/ a.Company = b.Company /\ a.FiscalYear < b.FiscalYear

RECURSIVE InsertRow(_, _)
InsertRow(r, sorted) ==
    IF sorted = <<>> THEN <<r>>
    ELSE IF RowLess(r, Head(sorted)) THEN <<r>> \o sorted
    ELSE <<Head(sorted)>> \o InsertRow(r, Tail(sorted))

\* df.sort_values(["Company", "FiscalYear"]).reset_index(drop=True)
RECURSIVE sort_values(_)
sort_values(rows) ==
    IF rows = <<>> THEN <<>>
    ELSE InsertRow(rows[Len(rows)], sort_values(SubSeq(rows, 1, Len(rows) - 1)))

\* floating-point results of the YoY column: NaN, +-inf, or the ratio num/den
NaN == [kind |-> "nan", num |-> 0, den |-> 1]
Inf(sign) == [kind |-> "inf", num |-> sign, den |-> 1]
Ratio(n, d) == [kind |-> "num", num |-> n, den |-> d]

\* one element of pct_change() * 100: (cur / prv - 1) * 100 in floating point,
\* where a division by zero yields inf, -inf or (0/0) NaN
pct_change(prv, cur) ==
    IF prv = 0
    THEN IF cur > 0 THEN Inf(1) ELSE IF cur < 0 THEN Inf(-1) ELSE NaN
    ELSE Ratio((cur - prv) * 100, prv)

yoy_col(c) == c \o "_YoY_pct"

\* df.groupby("Company")[c].pct_change() * 100 for row i of the sorted table
yoy_of(sorted, i, c) ==
    IF i > 1 /\ sorted[i - 1].Company = sorted[i].Company
    THEN pct_change(sorted[i - 1][c], sorted[i][c])
    ELSE NaN

with_yoy(sorted) ==
    [i \in DOMAIN sorted |->
        [f \in DOMAIN sorted[i] \cup {yoy_col(c) : c \in MetricSet} |->
            IF f \in DOMAIN sorted[i] THEN sorted[i][f]
            ELSE yoy_of(sorted, i, CHOOSE c \in MetricSet : yoy_col(c) = f)]]

load_data(f) ==
    IF ~f.exists THEN Raise("FileNotFoundError", <<>>)
    ELSE IF ~(required \subseteq {rename(h) : h \in f.header}) THEN Raise("ValueError", <<>>)
    ELSE Return(with_yoy(sort_values(f.rows)))

\* f"{x:,.0f}" for an integer
RECURSIVE Grouped(_)
Grouped(n) ==
    IF n < 1000 THEN ToString(n)
    ELSE LET r == n % 1000
         IN  Grouped(n \div 1000) \o ","
             \o (IF r < 10 THEN "00" ELSE IF r < 100 THEN "0" ELSE "") \o ToString(r)

Abs(n) == IF n < 0 THEN -n ELSE n

money_musd(x) == (IF x < 0 THEN "-" ELSE "") \o Grouped(Abs(x)) \o " USD mn"

\* mutant of latest_year: the earliest year instead of the latest
latest_year_earliest(df_, company) ==
    LET years == {df_[i].FiscalYear : i \in {j \in DOMAIN df_ : df_[j].Company = company}}
    IN  IF years = {} THEN Raise("ValueError: cannot convert float NaN to integer", 0)
        ELSE Return(CHOOSE y \in years : \A z \in years : y <= z)

\* the maximum of an empty column is NaN, and int(NaN) raises ValueError
latest_year(df_, company) ==
    LET years == {df_[i].FiscalYear : i \in {j \in DOMAIN df_ : df_[j].Company = company}}
    IN  IF years = {} THEN Raise("ValueError: cannot convert float NaN to integer", 0)
        ELSE Return(CHOOSE y \in years : \A z \in years : z <= y)

\* the first matching row, or KeyError(f"No data for {company} in FY{year}")
get_row(df_, company, year) ==
    LET sub == SelectSeq(df_, LAMBDA r : r.Company = company /\ r.FiscalYear = year)
    IN  IF sub = <<>>
        THEN Raise("KeyError: No data for " \o company \o " in FY" \o ToString(year), <<>>)
        ELSE Return(<<sub[1]>>)

IsKeyError(outcome) ==
    Len(outcome.raised) >= 8 /\ SubSeq(outcome.raised, 1, 8) = "KeyError"

-----------------------------------------------------------------------------
(* Response generation                                                     *)

TwoDigits(n) == (IF n < 10 THEN "0" ELSE "") \o ToString(n)

\* f"{abs(yoy):.2f}": the nearest hundredth of |num/den|, "inf" for an infinity
fmt2(yoy) ==
    IF yoy.kind = "inf" THEN "inf"
    ELSE LET a == Abs(yoy.num) * 100
             b == Abs(yoy.den)
             q == a \div b
             r == a % b
             h == IF 2 * r > b \/ (2 * r = b /\ q % 2 = 1) THEN q + 1 ELSE q
         IN  ToString(h \div 100) \o "." \o TwoDigits(h % 100)

isna(yoy) == yoy.kind = "nan"

\* yoy > 0
Positive(yoy) ==
    IF yoy.kind = "inf" THEN yoy.num > 0
    ELSE (yoy.num > 0 /\ yoy.den > 0) \/ (yoy.num < 0 /\ yoy.den < 0)

yoy_sentence(yoy, year) ==
    IF isna(yoy) THEN " YoY: N/A (no prior year in dataset)."
    ELSE " YoY: " \o (IF Positive(yoy) THEN "increased" ELSE "decreased")
         \o " by " \o fmt2(yoy) \o "% vs FY" \o ToString(year - 1) \o "."

answer_single(df_, company, metric_col, metric_name, year, include_yoy) ==
    LET got == get_row(df_, company, year)
    IN  IF got.raised # None THEN Raise(got.raised, "")
        ELSE LET r == got.value[1]
                 msg == company \o " " \o metric_name \o " (FY" \o ToString(year)
                        \o ") = " \o money_musd(r[metric_col]) \o "."
             IN  Return(IF include_yoy
                        THEN msg \o yoy_sentence(r[yoy_col(metric_col)], year)
                        ELSE msg)

no_data(c, year) == c \o ": No data for FY" \o ToString(year) \o "."

\* " | ".join(parts)
RECURSIVE join(_)
join(parts) ==
    IF parts = <<>> THEN ""
    ELSE IF Len(parts) = 1 THEN parts[1]
    ELSE parts[1] \o " | " \o join(Tail(parts))

\* the parts list of answer_compare: KeyError is caught per company
compare_parts(df_, companies, metric_col, metric_name, year, include_yoy) ==
    [i \in DOMAIN companies |->
        LET a == answer_single(df_, companies[i], metric_col, metric_name, year, include_yoy)
        IN  IF IsKeyError(a) THEN no_data(companies[i], year) ELSE a.value]

answer_compare(df_, companies, metric_col, metric_name, year, include_yoy) ==
    Return(join(compare_parts(df_, companies, metric_col, metric_name, year, include_yoy)))

-----------------------------------------------------------------------------
(* chatbot_reply                                                           *)

ASK_METRIC ==
    "Which metric do you want: revenue, net income, assets, liabilities, or operating cash flow (CFO)?"
ASK_COMPANY ==
    "Which company: Apple, Microsoft, or Tesla? (You can also say 'compare all')"

\* mutant of remember: the guard `if companies` is missing
remember_always(st, companies) == [has_key |-> TRUE, last_companies |-> companies]

\* mutant of remember: the companies are appended to the remembered ones
remember_append(st, companies) ==
    IF companies # <<>>
    THEN [has_key |-> TRUE,
          last_companies |-> (IF st.has_key THEN st.last_companies ELSE <<>>) \o companies]
    ELSE st

\* if companies: state["last_companies"] = companies
remember(st, companies) ==
    IF companies # <<>> THEN [has_key |-> TRUE, last_companies |-> companies] ELSE st

\* state.get("last_companies", [])
state_get(st) == IF st.has_key THEN st.last_companies ELSE <<>>

\* mutant of recall: the default of the get is the full company list
recall_default_all(st, companies) ==
    IF companies # <<>> THEN companies
    ELSE IF st.has_key THEN st.last_companies ELSE SUPPORTED_COMPANIES

\* if not companies: companies = state.get("last_companies", [])
recall(st, companies) == IF companies = <<>> THEN state_get(st) ELSE companies

\* wants_compare(text) or (len(companies) > 1)
compare_flag(wanted, companies) == wanted \/ Len(companies) > 1

\* "all" in text.lower() or "all companies" in text.lower()
says_all(text) == Contains(lower(text), "all") \/ Contains(lower(text), "all companies")

\* the scans chatbot_reply makes of its text
scan(text) ==
    [companies |-> extract_companies(text),
     year |-> extract_year(text),
     metric |-> detect_metric(text),
     include_yoy |-> wants_yoy(text),
     compare |-> wants_compare(text),
     all |-> says_all(text)]

\* if len(companies) == 1: companies = SUPPORTED_COMPANIES
expand(companies) == IF Len(companies) = 1 THEN SUPPORTED_COMPANIES ELSE companies

Scanned == [t \in Texts |-> scan(t)]

Frame(path, companies, year, metric_col, compare) ==
    [path |-> path, companies |-> companies, year |-> year,
     metric_col |-> metric_col, compare |-> compare]

\* the call chatbot_reply(df, user_text, state): its outcome, the state dict
\* after it, and its locals at the point it returned or raised
chatbot_reply(df_, user_text, st) ==
    LET text == strip(user_text)
        s == Scanned[text]
        found == s.companies
        st1 == remember(st, found)
        year0 == s.year
        metric == s.metric
        include_yoy == s.include_yoy
        compare0 == compare_flag(s.compare, found)
        companies1 == recall(st1, found)
        all == s.all
        companies2 == IF all THEN SUPPORTED_COMPANIES ELSE companies1
        compare1 == all \/ compare0
    IN  IF metric.col = None
        THEN [out |-> Return(ASK_METRIC), state |-> st1,
              frame |-> Frame("ask_metric", found, year0, metric.col, compare0)]
        ELSE IF companies1 = <<>>
        THEN [out |-> Return(ASK_COMPANY), state |-> st1,
              frame |-> Frame("ask_company", companies1, year0, metric.col, compare0)]
        ELSE LET ly == IF year0 = 0 THEN latest_year(df_, companies2[1]) ELSE Return(year0)
                 year == ly.value
             IN  IF ly.raised # None
                 THEN [out |-> Raise(ly.raised, ""), state |-> st1,
                       frame |-> Frame("latest_year", companies2, year0, metric.col, compare1)]
                 ELSE IF compare1
                 THEN [out |-> answer_compare(df_, expand(companies2), metric.col,
                                              metric.name, year, include_yoy),
                       state |-> st1,
                       frame |-> Frame("compare", expand(companies2), year, metric.col, compare1)]
                 ELSE [out |-> answer_single(df_, companies2[1], metric.col,
                                             metric.name, year, include_yoy),
                       state |-> st1,
                       frame |-> Frame("single", companies2, year, metric.col, compare1)]

-----------------------------------------------------------------------------
(* main(): load, then read a line, answer it, print, and loop              *)

EmptyDict == [has_key |-> FALSE, last_companies |-> <<>>]
MainDict == [has_key |-> TRUE, last_companies |-> <<>>]

NoOut == [raised |-> "pending", value |-> ""]
NoFrame == Frame("none", <<>>, 0, None, FALSE)
NoPrev == [valid |-> FALSE, out |-> NoOut, state |-> EmptyDict]

\* main() starts a session with {"last_companies": []}; a caller of
\* chatbot_reply may start one with {}
Init ==
    /\ pc = "load"
    /\ file \in Files
    /\ df = <<>>
    /\ state \in {MainDict, EmptyDict}
    /\ user = ""
    /\ out = NoOut
    /\ frame = NoFrame
    /\ prev = NoPrev
    /\ mentioned = state

\* df = load_data(DATA_FILE); an exception ends the process
load ==
    /\ pc = "load"
    /\ LET r == load_data(file)
       IN  /\ pc' = IF r.raised = None THEN "input" ELSE "failed"
           /\ df' = r.value
    /\ UNCHANGED <<file, state, user, out, frame, prev, mentioned>>

\* user = input().strip(); "exit" leaves the loop
read_input(line) ==
    /\ pc = "input"
    /\ user' = strip(line)
    /\ pc' = IF lower(user') = "exit" THEN "done" ELSE "reply"
    /\ mentioned' = IF lower(user') # "exit" /\ Scanned[user'].companies # <<>>
                    THEN [has_key |-> TRUE, last_companies |-> Scanned[user'].companies]
                    ELSE mentioned
    /\ UNCHANGED <<file, df, state, out, frame, prev>>

\* chatbot_reply(df, user, state) inside the try of the loop
reply ==
    /\ pc = "reply"
    /\ LET r == chatbot_reply(df, user, state)
       IN  /\ out' = r.out
           /\ state' = r.state
           /\ frame' = r.frame
    /\ pc' = "print"
    /\ UNCHANGED <<file, df, user, prev, mentioned>>

\* print the answer or the error and loop; the locals of the turn are dead
print ==
    /\ pc = "print"
    /\ pc' = "input"
    /\ user' = ""
    /\ out' = NoOut
    /\ frame' = NoFrame
    /\ prev' = NoPrev
    /\ UNCHANGED <<file, df, state, mentioned>>

\* print, and the next input() is the same line again: the outcome and the
\* state of the call just made are kept in prev
print_same_line ==
    /\ pc = "print"
    /\ pc' = "reply"
    /\ prev' = [valid |-> TRUE, out |-> out, state |-> state]
    /\ out' = NoOut
    /\ frame' = NoFrame
    /\ UNCHANGED <<file, df, state, user, mentioned>>

Next ==
    \/ load
    \/ \E line \in Lines : read_input(line)
    \/ reply
    \/ print
    \/ print_same_line

Spec == Init /\ [][Next]_vars

-----------------------------------------------------------------------------
(* Properties                                                              *)

\* a call of chatbot_reply has just returned or raised
Answered == pc = "print"

\* what the call just made scanned in its text
Seen == Scanned[user]

\* the segment of company c in a comparison for year y
Segment(c, m, y, include_yoy) ==
    LET a == answer_single(df, c, m.col, m.name, y, include_yoy)
    IN  IF a.raised = None THEN a.value ELSE no_data(c, y)

\* C1: a text with "all", a recognized metric and a year is answered, from any
\* state (also one with no last_companies), with one " | "-joined segment per
\* supported company: its value sentence or "{company}: No data for FY{year}."
C1_AllAnswersEveryCompany ==
    (Answered /\ Seen.all /\ Seen.metric.col # None /\ Seen.year # 0)
        => out = Return(join([i \in DOMAIN SUPPORTED_COMPANIES |->
                    Segment(SUPPORTED_COMPANIES[i], Seen.metric, Seen.year,
                            Seen.include_yoy)]))

C3_LastCompaniesAreLastNamed ==
    pc \in {"input", "print", "done"} => state = mentioned

C3_Witness ==
    /\ Answered
    /\ Seen.all
    /\ frame.path = "compare"
    /\ frame.companies = SUPPORTED_COMPANIES
    /\ state.last_companies = <<"Apple", "Tesla">>

\* C4: the same text twice in a row gives the same outcome (the same string or
\* the same error) both times, and the state after the second call is the
\* state after the first
C4_Idempotent ==
    (Answered /\ prev.valid) => (out = prev.out /\ state = prev.state)

C4_Witness ==
    /\ Answered
    /\ prev.valid
    /\ Seen.companies # <<>>
    /\ IsKeyError(out)

\* C5: the only error a call raises is KeyError on the single-company path, and
\* a turn whose compare flag is set returns a string, for any table and
\* whether the year was given or defaulted
C5_OnlyKeyErrorOnSingle ==
    Answered =>
        /\ out.raised # None => (IsKeyError(out) /\ frame.path = "single")
        /\ frame.compare => out.raised = None

\* the keyword groups of detect_metric in their order of priority
KeywordGroups ==
    <<[col |-> "TotalRevenue", keys |-> {"revenue", "sales", "top line"}],
      [col |-> "NetIncome", keys |-> {"net income", "profit", "earnings"}],
      [col |-> "TotalAssets", keys |-> {"assets", "total assets"}],
      [col |-> "TotalLiabilities", keys |-> {"liabilities", "total liabilities", "debt"}],
      [col |-> "CFO", keys |-> {"cfo", "operating cash", "operating cash flow",
                                "cash flow from operations"}]>>

Matching(text) ==
    {g \in DOMAIN KeywordGroups : AnyIn(lower(text), KeywordGroups[g].keys)}

FirstMatching ==
    [t \in Texts |->
        IF Matching(t) = {} THEN None
        ELSE KeywordGroups[CHOOSE g \in Matching(t) : \A h \in Matching(t) : g <= h].col]

\* C6: the metric detected is that of the first keyword group, in the order
\* revenue > net income > assets > liabilities > CFO, with a keyword in the
\* lower-cased text, wherever the keywords stand, and none iff no group has one
C6_FirstGroupWins ==
    Answered => frame.metric_col = FirstMatching[user]

C6_Witness ==
    /\ Answered
    /\ user = "cfo and total assets"
    /\ frame.metric_col = "TotalAssets"

\* C7 as stated: detect_metric("net income and revenue") is NetIncome
C7_NetIncomeAndRevenueIsNetIncome ==
    (Answered /\ user = "net income and revenue") => frame.metric_col = "NetIncome"

\* C7 as amended: detect_metric("net income and revenue") is TotalRevenue,
\* the revenue group being tested first
C7_NetIncomeAndRevenueIsRevenue ==
    (Answered /\ user = "net income and revenue") => frame.metric_col = "TotalRevenue"

C7_Witness ==
    /\ Answered
    /\ user = "net income and revenue"
    /\ out = Return(ASK_COMPANY)

\* the fiscal years the table holds for company c
YearsOf(c) == {df[i].FiscalYear : i \in {j \in DOMAIN df : df[j].Company = c}}

\* the companies resolved by the fallback and the "all" override
Resolved ==
    IF Seen.all THEN SUPPORTED_COMPANIES
    ELSE IF Seen.companies # <<>> THEN Seen.companies
    ELSE state_get(state)

\* the year of the text, or the latest year of the first resolved company
ExpectedYear ==
    IF Seen.year # 0 THEN Seen.year
    ELSE CHOOSE y \in YearsOf(Resolved[1]) : \A z \in YearsOf(Resolved[1]) : z <= y

\* C8: with no year in the text, every company of the answer is answered for
\* the latest year the table holds for the first resolved company (resolved
\* before the compare expansion); a year in the text is used as given
C8_YearOfAnswer ==
    (Answered /\ frame.path \in {"single", "compare"}) =>
        /\ frame.year = ExpectedYear
        /\ out = IF frame.path = "compare"
                 THEN Return(join([i \in DOMAIN frame.companies |->
                          Segment(frame.companies[i], Seen.metric, ExpectedYear,
                                  Seen.include_yoy)]))
                 ELSE answer_single(df, Resolved[1], Seen.metric.col, Seen.metric.name,
                                    ExpectedYear, Seen.include_yoy)

C8_Witness ==
    /\ Answered
    /\ frame.path = "compare"
    /\ Seen.year = 0 /\ ~Seen.all /\ Seen.companies = <<>>
    /\ state.last_companies = <<"Microsoft">>
    /\ frame.companies = SUPPORTED_COMPANIES
    /\ YearsOf("Microsoft") = {2023, 2024}
    /\ YearsOf("Apple") = {}
    /\ frame.year = 2024

\* C9: in the loaded table the YoY of a metric is undefined for a company's
\* first year and when the previous value is zero, and is otherwise
\* (current - previous) / previous * 100 against the preceding row of the company
C9_YoYOfLoadedTable ==
    \A i \in DOMAIN df : \A c \in MetricSet :
        LET yoy == df[i][yoy_col(c)]
            first == i = 1 \/ df[i - 1].Company # df[i].Company
        IN  IF first \/ df[i - 1][c] = 0
            THEN isna(yoy)
            ELSE /\ yoy.kind = "num"
                 /\ yoy.num * df[i - 1][c] = (df[i][c] - df[i - 1][c]) * 100 * yoy.den

\* C10: a turn dispatched to the single-company answer has exactly one
\* resolved company, also when the companies come from last_companies
C10_SingleHasOneCompany ==
    (Answered /\ frame.path = "single") => Len(frame.companies) = 1

====
